---- MODULE Spec2Model ----
(***************************************************************************)
(* A model of ShadeApi's release-resolution pipeline: the text classifiers *)
(* of src/downloaders/base.py, src/downloaders/github.py and src/utils.py,  *)
(* the GitHub and website strategies, and the orchestrator of              *)
(* src/app_tracker.py.                                                     *)
(*                                                                         *)
(* Python strings that the code inspects character by character are        *)
(* sequences of one-character strings; None, where a string may be absent, *)
(* is a sequence no string equals.                                         *)
(***************************************************************************)
EXTENDS Integers, Sequences, FiniteSets, TLC

VARIABLES
    \* the classifier: one call of one function
    c_pc, c_in, c_op, c_out,
    \* AppTracker.update_all_apps: its position, self.session and the sessions
    \* closed so far, the yaml files of apps/ and how many the loop has taken,
    \* the app whose request is in flight, apps_data, the requests issued,
    \* one record per process_app call, the aggregate handed to json.dump,
    \* the file written, the exception that left update_all_apps, the clock,
    \* which run of the pipeline this is and what the run before it ended in,
    \* the calls of init_session and close_session so far
    pc, session, closed, files, idx, cur, apps_data, requests, processed,
    handed, written, error, clock, run, previous, calls,
    \* GithubDownloader.get_releases: its position, the requests issued, the
    \* responses received, repo_info, release_info, what the call ended in
    g_pc, g_requests, g_responses, g_repo_info, g_release_info, g_return,
    \* WebsiteDownloader.get_releases: its position, the url it was given, the
    \* response, what the call ended in
    w_pc, w_url, w_response, w_return

classifierVars == <<c_pc, c_in, c_op, c_out>>

trackerVars == <<pc, session, closed, files, idx, cur, apps_data, requests,
                 processed, handed, written, error, clock, run, previous,
                 calls>>

githubVars == <<g_pc, g_requests, g_responses, g_repo_info, g_release_info,
                g_return>>

websiteVars == <<w_pc, w_url, w_response, w_return>>

vars == <<c_pc, c_in, c_op, c_out,
          pc, session, closed, files, idx, cur, apps_data, requests,
          processed, handed, written, error, clock, run, previous, calls,
          g_pc, g_requests, g_responses, g_repo_info, g_release_info, g_return,
          w_pc, w_url, w_response, w_return>>

(***************************************************************************)
(* Bounds of the model.                                                    *)
(***************************************************************************)
\* the number of tokens a classified text is put together from
MaxTokens == 2
\* the number of tokens a release url is put together from
MaxUrlTokens == 3
\* the number of yaml files under apps/
MaxApps == 3
\* the number of entries of a configured downloads list
MaxDownloads == 2
\* the number of assets of a github release
MaxAssets == 2
\* the number of links of a page
MaxLinks == 2
\* the number of tokens of a version handed to the version-cleaning helpers
MaxVersionTokens == 3
\* the applications of a run whose owner calls init_session and close_session
MaxSessionApps == 2
\* the calls of init_session and close_session the owner makes
MaxCalls == 2

(***************************************************************************)
(* Python's str operations, on sequences of characters.                    *)
(***************************************************************************)
None == <<"None">>

UpperLetters ==
    <<"A", "B", "C", "D", "E", "F", "G", "H", "I", "J", "K", "L", "M",
      "N", "O", "P", "Q", "R", "S", "T", "U", "V", "W", "X", "Y", "Z">>

LowerLetters ==
    <<"a", "b", "c", "d", "e", "f", "g", "h", "i", "j", "k", "l", "m",
      "n", "o", "p", "q", "r", "s", "t", "u", "v", "w", "x", "y", "z">>

LowerChar(c) ==
    IF \E i \in 1..26 : UpperLetters[i] = c
    THEN LowerLetters[CHOOSE i \in 1..26 : UpperLetters[i] = c]
    ELSE c

\* str.lower()
Lower(s) == [i \in 1..Len(s) |-> LowerChar(s[i])]

\* pat in s
Contains(s, pat) ==
    \E i \in 0..(Len(s) - Len(pat)) : SubSeq(s, i + 1, i + Len(pat)) = pat

\* s.startswith(pat)
StartsWith(s, pat) ==
    Len(s) >= Len(pat) /\ SubSeq(s, 1, Len(pat)) = pat

\* s.endswith(pat)
EndsWith(s, pat) ==
    Len(s) >= Len(pat) /\ SubSeq(s, Len(s) - Len(pat) + 1, Len(s)) = pat

\* any(x in s for x in pats)
ContainsAny(s, pats) == \E k \in 1..Len(pats) : Contains(s, pats[k])

\* s.split(ch)[-1]: what follows the last ch, the whole of s when it has none
SplitLast(s, ch) ==
    LET at == {i \in 1..Len(s) : s[i] = ch}
    IN  IF at = {} THEN s
        ELSE LET last == CHOOSE i \in at : \A j \in at : j <= i
             IN  SubSeq(s, last + 1, Len(s))

RECURSIVE Flatten(_)
\* ''.join(parts)
Flatten(parts) ==
    IF parts = <<>> THEN <<>> ELSE Head(parts) \o Flatten(Tail(parts))

\* the texts put together from at most n of the tokens
TokenTexts(tokens, n) ==
    {Flatten(p) : p \in UNION {[1..k -> tokens] : k \in 0..n}}

(***************************************************************************)
(* src/downloaders/base.py: the classifier and the validity predicate.     *)
(***************************************************************************)
\* BaseDownloader._detect_architecture
Base_detect_architecture(text0) ==
    LET text == Lower(text0)
    IN  IF ContainsAny(text, << <<"a", "r", "m", "6", "4">>,
                                <<"a", "a", "r", "c", "h", "6", "4">> >>)
        THEN <<"a", "r", "m", "6", "4">>
        ELSE IF ContainsAny(text, << <<"x", "6", "4">>,
                                     <<"a", "m", "d", "6", "4">>,
                                     <<"6", "4", "b", "i", "t">>,
                                     <<"w", "i", "n", "6", "4">>,
                                     <<"x", "8", "6", "_", "6", "4">> >>)
        THEN <<"x", "6", "4">>
        ELSE IF ContainsAny(text, << <<"x", "8", "6">>,
                                     <<"w", "i", "n", "3", "2">>,
                                     <<"3", "2", "b", "i", "t">>,
                                     <<"i", "3", "8", "6">> >>)
        THEN <<"x", "8", "6">>
        ELSE <<"x", "8", "6">>

\* GithubDownloader._detect_architecture, which overrides the base class's
Github_detect_architecture(filename0) ==
    LET filename == Lower(filename0)
    IN  IF ContainsAny(filename, << <<"x", "6", "4">>,
                                    <<"a", "m", "d", "6", "4">>,
                                    <<"6", "4", "b", "i", "t">>,
                                    <<"w", "i", "n", "6", "4">> >>)
        THEN <<"x", "6", "4">>
        ELSE IF ContainsAny(filename, << <<"a", "r", "m", "6", "4">>,
                                         <<"a", "a", "r", "c", "h", "6", "4">> >>)
        THEN <<"a", "r", "m", "6", "4">>
        ELSE IF ContainsAny(filename, << <<"x", "8", "6">>,
                                         <<"w", "i", "n", "3", "2">>,
                                         <<"3", "2", "b", "i", "t">> >>)
        THEN <<"x", "8", "6">>
        ELSE <<"x", "8", "6">>

\* AppUtils.detect_architecture
AppUtils_detect_architecture(filename0) ==
    LET filename == Lower(filename0)
    IN  IF ContainsAny(filename, << <<"x", "6", "4">>,
                                    <<"a", "m", "d", "6", "4">>,
                                    <<"6", "4", "b", "i", "t">>,
                                    <<"w", "i", "n", "6", "4">> >>)
        THEN <<"x", "6", "4">>
        ELSE IF ContainsAny(filename, << <<"a", "r", "m", "6", "4">>,
                                         <<"a", "a", "r", "c", "h", "6", "4">> >>)
        THEN <<"a", "r", "m", "6", "4">>
        ELSE <<"x", "8", "6">>

\* bool(x) of a str or None
Truthy(x) == x # None /\ x # <<>>

\* a mutation of _is_valid_release: the scheme test looks for the scheme
\* anywhere in the url
IsValidReleaseSchemeAnywhere(release) ==
    IF ~(\A x \in {release.version, release.url,
                   release.architecture, release.type} : Truthy(x))
    THEN FALSE
    ELSE IF ~(\/ Contains(release.url, <<"h", "t", "t", "p", ":", "/", "/">>)
              \/ Contains(release.url, <<"h", "t", "t", "p", "s", ":", "/", "/">>))
    THEN FALSE
    ELSE TRUE

\* BaseDownloader._is_valid_release
Base_is_valid_release(release) ==
    IF ~(\A x \in {release.version, release.url,
                   release.architecture, release.type} : Truthy(x))
    THEN FALSE
    ELSE IF ~(\/ StartsWith(release.url, <<"h", "t", "t", "p", ":", "/", "/">>)
              \/ StartsWith(release.url, <<"h", "t", "t", "p", "s", ":", "/", "/">>))
    THEN FALSE
    ELSE TRUE

(***************************************************************************)
(* src/app_tracker.py: the orchestrator.                                   *)
(*                                                                         *)
(* A dict is a function on its keys.  A yaml file that does not parse is   *)
(* YamlError.  A regular expression of a github asset pattern is the       *)
(* literal text it starts with; the pattern of a scrape download is a      *)
(* sequence of characters and of the placeholders "{version}" and          *)
(* "{version_clean}".                                                      *)
(***************************************************************************)
EmptyDict == [k \in {} |-> k]

\* d.get(k), of a dict of strings
Get(d, k) == IF k \in DOMAIN d THEN d[k] ELSE None

\* d[k] = v
Put(d, k, v) == [x \in DOMAIN d \cup {k} |-> IF x = k THEN v ELSE d[x]]

\* s.replace(ch, '')
Remove(s, ch) == SelectSeq(s, LAMBDA c : c # ch)

RECURSIVE StripLeft(_, _)
StripLeft(s, ch) ==
    IF s # <<>> /\ Head(s) = ch THEN StripLeft(Tail(s), ch) ELSE s

RECURSIVE StripRight(_, _)
StripRight(s, ch) ==
    IF s # <<>> /\ s[Len(s)] = ch
    THEN StripRight(SubSeq(s, 1, Len(s) - 1), ch) ELSE s

\* s.strip(ch): every leading and every trailing ch removed
Strip(s, ch) == StripRight(StripLeft(s, ch), ch)

\* pattern.format(version=..., version_clean=...)
Format(pattern, version, version_clean) ==
    Flatten([i \in 1..Len(pattern) |->
                IF pattern[i] = "{version}" THEN version
                ELSE IF pattern[i] = "{version_clean}" THEN version_clean
                ELSE <<pattern[i]>>])

\* re.match(pattern, name), for the literal patterns of the model
ReMatch(pattern, name) == StartsWith(name, pattern)

Digit(n) == <<"0", "1", "2", "3", "4", "5", "6", "7", "8", "9">>[n + 1]

(***************************************************************************)
(* The yaml files of apps/ and the responses of the network.               *)
(***************************************************************************)
\* the i-th entry of a configured downloads list; the third is an ftp link
DownloadEntry(i) ==
    [url |-> (IF i = 3 THEN <<"f", "t", "p">> ELSE <<"h", "t", "t", "p", "s">>)
             \o <<":", "/", "/", "d", "/">> \o <<Digit(i)>>,
     arch |-> IF i % 2 = 1 THEN <<"x", "6", "4">> ELSE <<"a", "r", "m", "6", "4">>,
     type |-> IF i % 2 = 1 THEN <<"e", "x", "e">> ELSE <<"m", "s", "i">>]

Downloads(n) == [i \in 1..n |-> DownloadEntry(i)]

YamlError == [yaml_error |-> TRUE]

GithubConfig ==
    [name |-> "Github App",
     detect |-> [type |-> "github", repo |-> "o/r",
                 assets |-> << [pattern |-> <<"a", "-", "x", "6", "4">>,
                                arch |-> <<"x", "6", "4">>,
                                type |-> <<"e", "x", "e">>],
                               [pattern |-> <<"a", "-">>,
                                arch |-> <<"x", "8", "6">>,
                                type |-> <<"z", "i", "p">>] >>]]

ApiConfig ==
    [name |-> "Api App",
     detect |-> [type |-> "api",
                 info |-> [url |-> "https://api/version", version_path |-> "$.version"],
                 downloads |-> Downloads(MaxDownloads)]]

ScrapeConfig ==
    [name |-> "Scrape App",
     detect |-> [type |-> "scrape",
                 info |-> [url |-> "https://site/download",
                           selectors |-> [version |-> "Version ([0-9.]+)"]],
                 downloads |->
                    [base_url |-> <<"h", "t", "t", "p", "s", ":", "/", "/", "s", "/">>,
                     patterns |-> << [pattern |-> <<"a", "-", "{version}", ".", "e", "x", "e">>,
                                      arch |-> <<"x", "6", "4">>,
                                      type |-> <<"e", "x", "e">>],
                                     [pattern |-> <<"a", "{version_clean}", ".", "m", "s", "i">>,
                                      arch |-> <<"x", "8", "6">>,
                                      type |-> <<"m", "s", "i">>] >>]]]

DirectConfig(n) ==
    [name |-> "Direct App",
     detect |-> [type |-> "direct", downloads |-> Downloads(n)]]

WebsiteConfig ==
    [name |-> "Website App",
     detect |-> [type |-> "website", base_url |-> "https://site/"]]

\* no detect section
NoDetectConfig == [name |-> "No Detect"]

\* no name
NoNameConfig == [detect |-> [type |-> "direct", downloads |-> Downloads(1)]]

\* the yaml files there may be under apps/: two categories, and one stem
\* that both have
AppFiles ==
    {[category |-> "dev", stem |-> "gh", config |-> GithubConfig],
     [category |-> "dev", stem |-> "api", config |-> ApiConfig],
     [category |-> "dev", stem |-> "scrape", config |-> ScrapeConfig],
     [category |-> "dev", stem |-> "site", config |-> WebsiteConfig],
     [category |-> "dev", stem |-> "nodetect", config |-> NoDetectConfig],
     [category |-> "dev", stem |-> "noname", config |-> NoNameConfig],
     [category |-> "dev", stem |-> "broken", config |-> YamlError],
     [category |-> "tools", stem |-> "gh", config |-> DirectConfig(1)]}
    \cup {[category |-> "tools", stem |-> "direct" \o ToString(n),
           config |-> DirectConfig(n)] : n \in 1..MaxDownloads}

\* the listings of apps/: files of distinct paths, in the order of iteration
Listings ==
    {l \in UNION {[1..n -> AppFiles] : n \in 0..MaxApps} :
        \A i, j \in 1..Len(l) :
            (i # j) => <<l[i].category, l[i].stem>> # <<l[j].category, l[j].stem>>}

\* what a request may end in: an exception of the transport, a status that is
\* not 200, or 200 with a body
TransportError == [raised |-> "ClientError"]

NotFound == [status |-> 404, json |-> [message |-> "Not Found"]]

GithubAssets ==
    << [name |-> <<"a", "-", "x", "6", "4", ".", "e", "x", "e">>,
        browser_download_url |-> <<"h", "t", "t", "p", "s", ":", "/", "/", "g", "/", "1">>],
       [name |-> <<"a", "-", "a", "r", "m", ".", "m", "s", "i">>,
        browser_download_url |-> <<"h", "t", "t", "p", "s", ":", "/", "/", "g", "/", "2">>],
       [name |-> <<"n", "o", "t", "e", "s">>,
        browser_download_url |-> <<"h", "t", "t", "p", "s", ":", "/", "/", "g", "/", "3">>] >>

Responses(type) ==
    IF type = "github" THEN
        {TransportError, NotFound,
         [status |-> 200,
          json |-> [tag_name |-> <<"v", "1", ".", "2">>, assets |-> GithubAssets]],
         [status |-> 200,
          json |-> [tag_name |-> <<"v">>, assets |-> GithubAssets]],
         [status |-> 200, json |-> [message |-> "no tag_name"]]}
    ELSE IF type = "api" THEN
        \* json: what the version_path finds in the body
        {TransportError,
         [status |-> 200, json |-> [matches |-> <<>>]],
         [status |-> 200, json |-> [matches |-> << <<"2", ".", "0">>, <<"1", ".", "9">> >>]]}
    ELSE
        \* html: what the version selector finds in the page
        {TransportError,
         [status |-> 200, html |-> [version_match |-> None]],
         [status |-> 200, html |-> [version_match |-> <<"1", ".", "2", ".", "0">>]]}

(***************************************************************************)
(* AppTracker.  A call that raises returns [raised |-> the exception],     *)
(* one that returns v returns [value |-> v].                               *)
(***************************************************************************)
Raised(r) == "raised" \in DOMAIN r

\* AppTracker.scrape_info, from the response on: the version is what the
\* selector's regular expression finds in the page
scrape_info(config, resp) ==
    IF Raised(resp) THEN resp
    ELSE IF "version" \in DOMAIN config.info.selectors
            /\ resp.html.version_match # None
         THEN [value |-> [version |-> resp.html.version_match]]
         ELSE [value |-> EmptyDict]

\* AppTracker.fetch_api_info, from the response on
fetch_api_info(config, resp) ==
    IF Raised(resp) THEN resp
    ELSE IF resp.json.matches # <<>>
         THEN [value |-> [version |-> resp.json.matches[1]]]
         ELSE [value |-> EmptyDict]

\* AppTracker.fetch_github_info, from the response on
fetch_github_info(config, resp) ==
    IF Raised(resp) THEN resp
    ELSE IF resp.status # 200 THEN [value |-> EmptyDict]
    ELSE IF ~({"tag_name", "assets"} \subseteq DOMAIN resp.json)
         THEN [raised |-> "KeyError"]
         ELSE [value |-> [version |-> Strip(resp.json.tag_name, "v"),
                          assets |-> resp.json.assets]]

\* process_app, lines 91-104: the yaml file is loaded and the request of the
\* detect type, if it has one, is issued
ProcessAppDispatch(config) ==
    IF config = YamlError THEN [raised |-> "YAMLError"]
    ELSE IF "detect" \notin DOMAIN config THEN [raised |-> "KeyError"]
    ELSE IF "type" \notin DOMAIN config.detect THEN [raised |-> "KeyError"]
    ELSE IF config.detect.type \in {"scrape", "api"}
         THEN IF "info" \in DOMAIN config.detect /\ "url" \in DOMAIN config.detect.info
              THEN [await |-> config.detect.info.url]
              ELSE [raised |-> "KeyError"]
    ELSE IF config.detect.type = "github"
         THEN IF "repo" \in DOMAIN config.detect
              THEN [await |-> "https://api.github.com/repos/"
                                \o config.detect.repo \o "/releases/latest"]
              ELSE [raised |-> "KeyError"]
    ELSE [value |-> EmptyDict]

\* process_app, lines 99-104, from the response on
ProcessAppInfo(config, resp) ==
    IF config.detect.type = "scrape" THEN scrape_info(config.detect, resp)
    ELSE IF config.detect.type = "api" THEN fetch_api_info(config.detect, resp)
    ELSE fetch_github_info(config.detect, resp)

\* the variants of one github asset: one for each pattern that matches it
AssetVariants(asset, patterns, version) ==
    LET hit == SelectSeq(patterns, LAMBDA p : ReMatch(p.pattern, asset.name))
    IN  [k \in 1..Len(hit) |->
            [version |-> version, architecture |-> hit[k].arch,
             type |-> hit[k].type, url |-> asset.browser_download_url]]

\* process_app, lines 107-142: the variants of the detect type, none when
\* there is no version
ProcessAppVariants(detect, info) ==
    LET version == Get(info, "version")
    IN  IF ~Truthy(version) THEN [value |-> <<>>]
        ELSE IF detect.type = "scrape" THEN
            IF "downloads" \notin DOMAIN detect THEN [raised |-> "KeyError"]
            ELSE LET version_clean == Remove(version, ".")
                     patterns == detect.downloads.patterns
                 IN  [value |->
                        [k \in 1..Len(patterns) |->
                            [version |-> version,
                             architecture |-> patterns[k].arch,
                             type |-> patterns[k].type,
                             url |-> detect.downloads.base_url
                                     \o Format(patterns[k].pattern, version, version_clean)]]]
        ELSE IF detect.type = "api" THEN
            IF "downloads" \notin DOMAIN detect THEN [raised |-> "KeyError"]
            ELSE [value |->
                    [k \in 1..Len(detect.downloads) |->
                        [version |-> version,
                         architecture |-> detect.downloads[k].arch,
                         type |-> detect.downloads[k].type,
                         url |-> detect.downloads[k].url]]]
        ELSE IF detect.type = "github" THEN
            IF "assets" \notin DOMAIN detect THEN [raised |-> "KeyError"]
            ELSE [value |->
                    Flatten([a \in 1..Len(info.assets) |->
                                AssetVariants(info.assets[a], detect.assets, version)])]
        ELSE [value |-> <<>>]

NoneResult == [none |-> TRUE]

\* process_app, lines 106-148, from the info on: the exception raised, "none"
\* when the dict is returned
ProcessAppRaises(config, info) ==
    IF Raised(info) THEN info.raised
    ELSE IF Raised(ProcessAppVariants(config.detect, info.value)) THEN "KeyError"
    ELSE IF "name" \notin DOMAIN config THEN "KeyError"
    ELSE "none"

\* a mutation of the except clause: only a KeyError is caught
ExceptKeyErrorOnly(exception) == exception = "KeyError"

\* process_app, line 150: except Exception catches every exception of the
\* model (yaml's YAMLError, KeyError, aiohttp's ClientError)
ExceptException(exception) ==
    exception \in {"YAMLError", "KeyError", "ClientError"}

\* a mutation of lines 117-148: every variant is stamped with the time of the
\* run
ProcessAppReturnStamped(config, info, now) ==
    IF ProcessAppRaises(config, info) # "none" THEN NoneResult
    ELSE LET variants == ProcessAppVariants(config.detect, info.value).value
         IN  [name |-> config.name,
              variants |-> [k \in 1..Len(variants) |->
                              [f \in DOMAIN variants[k] \cup {"date"} |->
                                  IF f = "date" THEN now ELSE variants[k][f]]],
              updated_at |-> now]

\* process_app, from the info on: the dict of lines 144-148, or the None of
\* line 152 when an exception was caught
ProcessAppReturn(config, info, now) ==
    IF ProcessAppRaises(config, info) # "none" THEN NoneResult
    ELSE [name |-> config.name,
          variants |-> ProcessAppVariants(config.detect, info.value).value,
          updated_at |-> now]

\* the exception that leaves process_app, "none" when none does
ProcessAppEscapes(config, info) ==
    LET exception == ProcessAppRaises(config, info)
    IN  IF exception # "none" /\ ~ExceptException(exception)
        THEN exception ELSE "none"

\* a mutation of the test of line 165: a result without variants is not stored
StoreResultWithVariants(data, stem, result) ==
    IF result # NoneResult /\ result.variants # <<>>
    THEN Put(data, stem, result) ELSE data

\* update_all_apps, lines 165-167: a result that is not None is stored under
\* the stem of its file
StoreResult(data, stem, result) ==
    IF result # NoneResult THEN Put(data, stem, result) ELSE data

NoRequest == [no_request |-> TRUE]

NoApp == [no_app |-> TRUE]

NoOutput == [no_output |-> TRUE]

\* update_all_apps, lines 173-177
BuildOutput(data, now) ==
    [last_updated |-> now, apps_count |-> Cardinality(DOMAIN data), apps |-> data]

(***************************************************************************)
(* src/downloaders/github.py: the GitHub strategy.                         *)
(*                                                                         *)
(* A json null that stands where an object may is Null.  The content of a  *)
(* README is what base64 and utf-8 make of it: the text, or a failure.     *)
(***************************************************************************)
Null == [null |-> TRUE]

\* BaseDownloader.file_types
file_types ==
    << <<<<"e", "x", "e">>, <<"W", "i", "n", "d", "o", "w", "s", " ", "E", "x", "e", "c", "u", "t", "a", "b", "l", "e">>>>,
       <<<<"m", "s", "i">>, <<"W", "i", "n", "d", "o", "w", "s", " ", "I", "n", "s", "t", "a", "l", "l", "e", "r">>>>,
       <<<<"m", "s", "i", "x">>, <<"W", "i", "n", "d", "o", "w", "s", " ", "P", "a", "c", "k", "a", "g", "e">>>>,
       <<<<"z", "i", "p">>, <<"C", "o", "m", "p", "r", "e", "s", "s", "e", "d", " ", "A", "r", "c", "h", "i", "v", "e">>>>,
       <<<<"a", "p", "p", "x">>, <<"W", "i", "n", "d", "o", "w", "s", " ", "S", "t", "o", "r", "e", " ", "A", "p", "p">>>>,
       <<<<"p", "k", "g">>, <<"W", "i", "n", "d", "o", "w", "s", " ", "P", "a", "c", "k", "a", "g", "e">>>>,
       <<<<"a", "p", "p", "x", "b", "u", "n", "d", "l", "e">>, <<"W", "i", "n", "d", "o", "w", "s", " ", "A", "p", "p", " ", "B", "u", "n", "d", "l", "e">>>> >>

\* table.get(key, default), of a table of pairs
Lookup(table, key, default) ==
    IF \E i \in 1..Len(table) : table[i][1] = key
    THEN table[CHOOSE i \in 1..Len(table) : table[i][1] = key][2]
    ELSE default

\* BaseDownloader._detect_file_type and GithubDownloader._detect_file_type
detect_file_type(filename) ==
    LET ext == Lower(SplitLast(filename, "."))
    IN  Lookup(file_types, ext, ext)

\* BaseDownloader._detect_installer_type; the + of a str and None raises
detect_installer_type(filename, description) ==
    IF description = None THEN [raised |-> "TypeError"]
    ELSE LET text == Lower(filename \o <<" ">> \o description)
         IN  IF Contains(text, <<"p", "o", "r", "t", "a", "b", "l", "e">>)
             THEN [value |-> <<"P", "o", "r", "t", "a", "b", "l", "e", " ", "A", "p", "p", "l", "i", "c", "a", "t", "i", "o", "n">>]
             ELSE IF ContainsAny(text, <<<<"s", "e", "t", "u", "p">>, <<"i", "n", "s", "t", "a", "l", "l", "e", "r">>>>)
             THEN [value |-> <<"I", "n", "t", "e", "r", "a", "c", "t", "i", "v", "e", " ", "S", "e", "t", "u", "p">>]
             ELSE IF Contains(text, <<"s", "t", "a", "n", "d", "a", "l", "o", "n", "e">>)
             THEN [value |-> <<"S", "t", "a", "n", "d", "a", "l", "o", "n", "e", " ", "A", "p", "p", "l", "i", "c", "a", "t", "i", "o", "n">>]
             ELSE IF EndsWith(filename, <<".", "m", "s", "i">>)
             THEN [value |-> <<"W", "i", "n", "d", "o", "w", "s", " ", "I", "n", "s", "t", "a", "l", "l", "e", "r">>]
             ELSE [value |-> <<"D", "e", "f", "a", "u", "l", "t">>]

\* GithubDownloader._detect_minimum_os
Github_detect_minimum_os(filename, readme) ==
    IF Contains(Lower(readme), <<"w", "i", "n", "d", "o", "w", "s", " ", "1", "1">>) THEN <<"W", "i", "n", "d", "o", "w", "s", " ", "1", "1">>
    ELSE IF Contains(Lower(readme), <<"w", "i", "n", "d", "o", "w", "s", " ", "1", "0">>) THEN <<"W", "i", "n", "d", "o", "w", "s", " ", "1", "0">>
    ELSE IF Contains(Lower(readme), <<"w", "i", "n", "d", "o", "w", "s", " ", "7">>) THEN <<"W", "i", "n", "d", "o", "w", "s", " ", "7">>
    ELSE <<"W", "i", "n", "d", "o", "w", "s">>

\* the categories of GithubDownloader._detect_category, in the dict's order
GithubCategories ==
    << <<<<"d", "e", "v">>, <<<<"d", "e", "v", "e", "l", "o", "p", "e", "r">>, <<"d", "e", "v", "e", "l", "o", "p", "m", "e", "n", "t">>, <<"p", "r", "o", "g", "r", "a", "m", "m", "i", "n", "g">>, <<"c", "o", "d", "e">>>> >>,
       <<<<"u", "t", "i", "l", "i", "t", "y">>, <<<<"u", "t", "i", "l", "i", "t", "y">>, <<"t", "o", "o", "l">>, <<"s", "y", "s", "t", "e", "m">>>> >>,
       <<<<"m", "u", "l", "t", "i", "m", "e", "d", "i", "a">>, <<<<"a", "u", "d", "i", "o">>, <<"v", "i", "d", "e", "o">>, <<"m", "e", "d", "i", "a">>, <<"p", "l", "a", "y", "e", "r">>>> >>,
       <<<<"p", "r", "o", "d", "u", "c", "t", "i", "v", "i", "t", "y">>, <<<<"o", "f", "f", "i", "c", "e">>, <<"d", "o", "c", "u", "m", "e", "n", "t">>, <<"p", "r", "o", "d", "u", "c", "t", "i", "v", "i", "t", "y">>>> >>,
       <<<<"s", "e", "c", "u", "r", "i", "t", "y">>, <<<<"s", "e", "c", "u", "r", "i", "t", "y">>, <<"e", "n", "c", "r", "y", "p", "t", "i", "o", "n">>, <<"a", "n", "t", "i", "v", "i", "r", "u", "s">>>> >>,
       <<<<"c", "o", "m", "m", "u", "n", "i", "c", "a", "t", "i", "o", "n">>, <<<<"c", "h", "a", "t">>, <<"m", "e", "s", "s", "a", "g", "i", "n", "g">>, <<"c", "o", "m", "m", "u", "n", "i", "c", "a", "t", "i", "o", "n">>>> >> >>

\* GithubDownloader._detect_category: the first topic, and for it the first
\* category, with a keyword in the topic
Github_detect_category(topics) ==
    LET hit(t, c) == ContainsAny(Lower(topics[t]), GithubCategories[c][2])
        hits == {<<t, c>> \in (1..Len(topics)) \X (1..Len(GithubCategories)) : hit(t, c)}
    IN  IF hits = {} THEN <<"o", "t", "h", "e", "r">>
        ELSE LET first == CHOOSE h \in hits :
                            \A g \in hits : h[1] < g[1] \/ (h[1] = g[1] /\ h[2] <= g[2])
             IN  GithubCategories[first[2]][1]

RECURSIVE Split(_, _)
\* s.split(sep)
Split(s, sep) ==
    LET at == {i \in 1..(Len(s) - Len(sep) + 1) : SubSeq(s, i, i + Len(sep) - 1) = sep}
    IN  IF at = {} THEN <<s>>
        ELSE LET i == CHOOSE k \in at : \A j \in at : k <= j
             IN  <<SubSeq(s, 1, i - 1)>> \o Split(SubSeq(s, i + Len(sep), Len(s)), sep)

Whitespace == {" ", "\n", "\t", "\r", "\f"}

RECURSIVE StripSpace(_)
\* s.strip()
StripSpace(s) ==
    IF s = <<>> THEN s
    ELSE IF Head(s) \in Whitespace THEN StripSpace(Tail(s))
    ELSE IF s[Len(s)] \in Whitespace THEN StripSpace(SubSeq(s, 1, Len(s) - 1))
    ELSE s

\* the backquote, which a string of TLA+ cannot hold
Backquote == "backquote"

\* a paragraph of a README counts as a description when it is longer
MinDescription == 20

\* a description is cut to this length
DescriptionCut == 200

\* GithubDownloader._extract_description
Github_extract_description(readme) ==
    IF readme = <<>> THEN <<>>
    ELSE LET paragraphs == Split(readme, <<"\n", "\n">>)
             clean(p) == StripSpace(SelectSeq(p, LAMBDA c : c \notin {"#", "*", Backquote}))
             long == {k \in 1..Len(paragraphs) : Len(clean(paragraphs[k])) > MinDescription}
         IN  IF long = {} THEN <<>>
             ELSE LET k == CHOOSE m \in long : \A n \in long : m <= n
                      clean_p == clean(paragraphs[k])
                  IN  SubSeq(clean_p, 1, IF Len(clean_p) < DescriptionCut
                                         THEN Len(clean_p) ELSE DescriptionCut)

\* lines 48-70: the Release of one asset (its fields without a default), or
\* the first exception its making raises
GithubAssetRelease(asset, version, repo_info, release_info, readme_content) ==
    LET filename == asset.name
        installer_type ==
            detect_installer_type(filename,
                IF "label" \in DOMAIN asset THEN asset.label ELSE <<>>)
    IN  IF Raised(installer_type) THEN installer_type
        ELSE IF "homepage" \notin DOMAIN repo_info THEN [raised |-> "KeyError"]
        ELSE IF "license" \in DOMAIN repo_info /\ repo_info.license = Null
        THEN [raised |-> "AttributeError"]
        ELSE [value |->
                [version |-> version,
                 url |-> asset.browser_download_url,
                 architecture |-> Github_detect_architecture(filename),
                 type |-> detect_file_type(filename),
                 date |-> release_info.published_at,
                 size |-> asset.size,
                 installerType |-> installer_type.value,
                 publisher |-> repo_info.owner.login,
                 description |-> IF Truthy(repo_info.description)
                                 THEN repo_info.description
                                 ELSE Github_extract_description(readme_content),
                 homepage |-> IF Truthy(repo_info.homepage)
                              THEN repo_info.homepage ELSE repo_info.html_url,
                 license |-> IF "license" \in DOMAIN repo_info
                                /\ "name" \in DOMAIN repo_info.license
                             THEN repo_info.license.name ELSE <<"U", "n", "k", "n", "o", "w", "n">>,
                 filename |-> filename,
                 minimumOS |-> Github_detect_minimum_os(filename, readme_content),
                 category |-> Github_detect_category(
                                 IF "topics" \in DOMAIN repo_info
                                 THEN repo_info.topics ELSE <<>>),
                 tags |-> IF "topics" \in DOMAIN repo_info
                          THEN repo_info.topics ELSE <<>>]]

\* line 46
GithubVersion(tag_name) == Strip(tag_name, "v")

\* lines 45-72: one Release for each asset, in the assets' order; the first
\* exception leaves get_releases
GithubBuildReleases(repo_info, release_info, readme_content) ==
    LET version == GithubVersion(release_info.tag_name)
        made == [k \in 1..Len(release_info.assets) |->
                    GithubAssetRelease(release_info.assets[k], version, repo_info,
                                       release_info, readme_content)]
        bad == {k \in 1..Len(made) : Raised(made[k])}
    IN  IF bad # {} THEN made[CHOOSE k \in bad : \A j \in bad : k <= j]
        ELSE [value |-> [k \in 1..Len(made) |-> made[k].value]]

\* lines 39-43: the README's text, "" when the status is not 200
GithubReadmeContent(resp) ==
    IF Raised(resp) THEN resp
    ELSE IF resp.status # 200 THEN [value |-> <<>>]
    ELSE IF "content" \notin DOMAIN resp.json THEN [raised |-> "KeyError"]
    ELSE IF ~resp.json.content.base64 THEN [raised |-> "binascii.Error"]
    ELSE IF ~resp.json.content.utf8 THEN [raised |-> "UnicodeDecodeError"]
    ELSE [value |-> resp.json.content.text]

\* a mutation of lines 21-22 and 30-31: the status is not looked at
GithubProceedsAlways(resp) == ~Raised(resp) /\ "json" \in DOMAIN resp

\* lines 21-23 and 30-32: the read is gone on from when its status is 200
GithubProceeds(resp) == ~Raised(resp) /\ resp.status = 200

(***************************************************************************)
(* What api.github.com may answer.                                         *)
(***************************************************************************)
RepoInfos ==
    {[f \in fields |->
        CASE f = "owner" -> [login |-> <<"o">>]
          [] f = "html_url" -> <<"h", "t", "t", "p", "s", ":", "/", "/", "g", "/", "o", "/", "r">>
          [] f = "description" -> description
          [] f = "homepage" -> homepage
          [] f = "license" -> license
          [] f = "topics" -> <<<<"c", "l", "i", "-", "t", "o", "o", "l">>, <<"V", "i", "d", "e", "o">>>>] :
      fields \in {{"owner", "html_url", "description"} \cup opt :
                    opt \in SUBSET {"homepage", "license", "topics"}},
      description \in {<<"A", " ", "t", "o", "o", "l">>, None},
      homepage \in {<<"h", "t", "t", "p", "s", ":", "/", "/", "h">>, None},
      license \in {[name |-> <<"M", "I", "T">>], Null}}

\* the assets a release may have: without a label, with one, with an ftp
\* link and a name without an extension, with a label that is null
AssetPool ==
    {[name |-> <<"a", "-", "x", "6", "4", ".", "e", "x", "e">>, browser_download_url |-> <<"h", "t", "t", "p", "s", ":", "/", "/", "g", "/", "1">>, size |-> 10],
     [name |-> <<"a", "-", "x", "8", "6", "_", "6", "4", "-", "S", "e", "t", "u", "p", ".", "M", "S", "I">>, browser_download_url |-> <<"h", "t", "t", "p", "s", ":", "/", "/", "g", "/", "2">>,
      size |-> 20, label |-> <<"I", "n", "s", "t", "a", "l", "l", "e", "r">>],
     [name |-> <<"a", "-", "a", "r", "m", "6", "4", "-", "w", "i", "n", "6", "4", ".">>, browser_download_url |-> <<"f", "t", "p", ":", "/", "/", "g", "/", "3">>,
      size |-> 30, label |-> <<>>],
     [name |-> <<"a", ".", "z", "i", "p">>, browser_download_url |-> <<"h", "t", "t", "p", "s", ":", "/", "/", "g", "/", "4">>,
      size |-> 40, label |-> None]}

AssetLists == UNION {[1..n -> AssetPool] : n \in 0..MaxAssets}

Tags == {<<"v", "1", ".", "2">>, <<"1", ".", "2">>, <<"v">>, <<"v", "v", "2", ".", "0", "v">>}

ReleaseInfos ==
    [tag_name : Tags, assets : AssetLists, published_at : {<<"2", "0", "2", "4", "-", "0", "1", "-", "0", "1", "T", "0", "0", ":", "0", "0", ":", "0", "0", "Z">>}]

ReadmeText == <<"#", " ", "A", "\n", "\n", "*", "*", "A", "*", "*", " ", Backquote, "t", "o", "o", "l", Backquote, " ", "f", "o", "r", " ", "W", "i", "n", "d", "o", "w", "s", " ", "1", "0", " ", "a", "n", "d", " ", "l", "a", "t", "e", "r", ".", "\n", "\n", "M", "o", "r", "e">>

ReadmeInfos ==
    {[content |-> [base64 |-> TRUE, utf8 |-> TRUE, text |-> ReadmeText]],
     [content |-> [base64 |-> TRUE, utf8 |-> FALSE, text |-> <<>>]],
     [content |-> [base64 |-> FALSE, utf8 |-> FALSE, text |-> <<>>]],
     [message |-> "no content"]}

GithubResponses(infos) ==
    {TransportError, NotFound} \cup {[status |-> 200, json |-> i] : i \in infos}

NotReturned == [running |-> TRUE]

GithubIdle ==
    /\ g_pc = "idle" /\ g_requests = <<>> /\ g_responses = <<>>
    /\ g_repo_info = Null /\ g_release_info = Null /\ g_return = NotReturned

(***************************************************************************)
(* src/downloaders/website.py: the website strategy.                       *)
(*                                                                         *)
(* The soup of a page is its title, its meta tags and its links; a link is *)
(* its href, its text and the text that follows it in its parent, so the   *)
(* parent's text is the two together.  The regular expressions are matched *)
(* as re.search matches them: leftmost, greedy.                            *)
(***************************************************************************)
IsDigit(c) == c \in {"0", "1", "2", "3", "4", "5", "6", "7", "8", "9"}

\* the last index of the digits that start at i
RunEnd(s, i) ==
    CHOOSE e \in i..Len(s) :
        /\ \A k \in i..e : IsDigit(s[k])
        /\ e = Len(s) \/ ~IsDigit(s[e + 1])

\* \.\d+ matches at i
FractionAt(s, i) == i + 1 <= Len(s) /\ s[i] = "." /\ IsDigit(s[i + 1])

\* the last index of \d+\.\d+(?:\.\d+)? matched at q, 0 when it does not match
VersionEnd(s, q) ==
    IF ~IsDigit(s[q]) \/ ~FractionAt(s, RunEnd(s, q) + 1) THEN 0
    ELSE LET e2 == RunEnd(s, RunEnd(s, q) + 2)
         IN  IF FractionAt(s, e2 + 1) THEN RunEnd(s, e2 + 2) ELSE e2

\* WebsiteDownloader._extract_version, of the text of the page: the first
\* match of version_pattern, 'latest' when there is none
Website_extract_version(text) ==
    LET at == {q \in 1..Len(text) : VersionEnd(text, q) # 0}
    IN  IF at = {} THEN <<"l", "a", "t", "e", "s", "t">>
        ELSE LET q == CHOOSE k \in at : \A j \in at : k <= j
             IN  SubSeq(text, q, VersionEnd(text, q))

RECURSIVE ParseInt(_)
\* int(digits)
ParseInt(digits) ==
    IF digits = <<>> THEN 0
    ELSE 10 * ParseInt(SubSeq(digits, 1, Len(digits) - 1))
         + (CHOOSE d \in 0..9 : Digit(d) = digits[Len(digits)])

RECURSIVE Pow10(_)
Pow10(k) == IF k = 0 THEN 1 ELSE 10 * Pow10(k - 1)

\* the first index at or after i that holds no white space
SkipSpace(s, i) ==
    CHOOSE e \in i..(Len(s) + 1) :
        /\ \A k \in i..(e - 1) : s[k] \in Whitespace
        /\ e = Len(s) + 1 \/ s[e] \notin Whitespace

\* size_pattern matched at p: the number's last index and the unit's first,
\* <<0, 0>> when it does not match
SizeAt(s, p) ==
    IF ~IsDigit(s[p]) THEN <<0, 0>>
    ELSE LET e1 == RunEnd(s, p)
             e2 == IF FractionAt(s, e1 + 1) THEN RunEnd(s, e1 + 2) ELSE e1
             u == SkipSpace(s, e2 + 1)
         IN  IF u + 1 <= Len(s) /\ SubSeq(s, u, u + 1) \in {<<"M", "B">>, <<"G", "B">>, <<"K", "B">>}
             THEN <<e2, u>> ELSE <<0, 0>>

\* the bytes of a unit
KB == 1024

RECURSIVE ScaleFloor(_, _, _)
\* the whole part of num / den * 1024^times, without a large intermediate
ScaleFloor(num, den, times) ==
    IF times = 0 THEN num \div den
    ELSE (num \div den) * KB * (IF times >= 2 THEN KB ELSE 1)
                        * (IF times >= 3 THEN KB ELSE 1)
         + ScaleFloor((num % den) * KB, den, times - 1)

\* int(float(value) * multiplier[unit]), for a value the float holds exactly
SizeBytes(value, unit) ==
    LET dot == {i \in 1..Len(value) : value[i] = "."}
        whole == IF dot = {} THEN value
                 ELSE SubSeq(value, 1, (CHOOSE i \in dot : TRUE) - 1)
        frac == IF dot = {} THEN <<>>
                ELSE SubSeq(value, (CHOOSE i \in dot : TRUE) + 1, Len(value))
        times == IF unit = <<"K", "B">> THEN 1
                 ELSE IF unit = <<"M", "B">> THEN 2 ELSE 3
    IN  ScaleFloor(ParseInt(whole) * Pow10(Len(frac)) + ParseInt(frac),
                   Pow10(Len(frac)), times)

\* WebsiteDownloader._extract_size; NoSize is its None
NoSize == -1

Website_extract_size(text) ==
    LET at == {p \in 1..Len(text) : SizeAt(text, p) # <<0, 0>>}
    IN  IF at = {} THEN NoSize
        ELSE LET p == CHOOSE k \in at : \A j \in at : k <= j
                 m == SizeAt(text, p)
             IN  SizeBytes(SubSeq(text, p, m[1]), SubSeq(text, m[2], m[2] + 1))

\* how many of the at most n characters from i on are digits in a row
DigitsAt(s, i, n) ==
    CHOOSE d \in 0..n :
        /\ \A k \in i..(i + d - 1) : k <= Len(s) /\ IsDigit(s[k])
        /\ d = n \/ i + d > Len(s) \/ ~IsDigit(s[i + d])

\* \d{1,2}[-/] matched at i: the index after it, 0 when it does not match
DayAt(s, i) ==
    LET d == DigitsAt(s, i, 2)
    IN  IF d >= 1 /\ i + d <= Len(s) /\ s[i + d] \in {"-", "/"}
        THEN i + d + 1 ELSE 0

\* date_pattern matched at p: its last index, 0 when it does not match
DateEnd(s, p) ==
    LET a == DayAt(s, p)
        b == IF a = 0 THEN 0 ELSE DayAt(s, a)
        y == IF b = 0 THEN 0 ELSE DigitsAt(s, b, 4)
    IN  IF b # 0 /\ y >= 2 THEN b + y - 1 ELSE 0

\* WebsiteDownloader._extract_date
Website_extract_date(text) ==
    LET at == {p \in 1..Len(text) : DateEnd(text, p) # 0}
    IN  IF at = {} THEN None
        ELSE LET p == CHOOSE k \in at : \A j \in at : k <= j
             IN  SubSeq(text, p, DateEnd(text, p))

\* WebsiteDownloader.download_keywords
download_keywords == <<<<"d", "o", "w", "n", "l", "o", "a", "d">>, <<"s", "e", "t", "u", "p">>, <<"i", "n", "s", "t", "a", "l", "l">>, <<"g", "e", "t">>, <<"l", "a", "t", "e", "s", "t">>>>

\* WebsiteDownloader._is_download_link
Website_is_download_link(href, text) ==
    \/ \E k \in 1..Len(file_types) : Contains(Lower(href), file_types[k][1])
    \/ ContainsAny(Lower(text), download_keywords)

\* soup.find('meta', {'name': names}): the first meta tag of one of the names
FindMeta(soup, names) ==
    LET at == {k \in 1..Len(soup.metas) : soup.metas[k].name \in names}
    IN  IF at = {} THEN Null
        ELSE soup.metas[CHOOSE k \in at : \A j \in at : k <= j]

\* WebsiteDownloader._extract_meta_info
Website_extract_meta_info(soup) ==
    LET desc_tag == FindMeta(soup, {"description"})
        publisher_tag == FindMeta(soup, {"publisher", "author"})
        content(tag) == IF "content" \in DOMAIN tag THEN tag.content ELSE <<>>
        keys == (IF "title" \in DOMAIN soup THEN {"title"} ELSE {})
                \cup (IF desc_tag # Null THEN {"description"} ELSE {})
                \cup (IF publisher_tag # Null THEN {"publisher"} ELSE {})
    IN  [k \in keys |->
            IF k = "title" THEN StripSpace(soup.title)
            ELSE IF k = "description" THEN content(desc_tag)
            ELSE content(publisher_tag)]

\* soup.get_text()
GetText(soup) ==
    (IF "title" \in DOMAIN soup THEN soup.title ELSE <<>>)
    \o Flatten([k \in 1..Len(soup.links) |-> soup.links[k].text \o soup.links[k].tail])

\* lines 59-60: a href without http:// or https:// is put after the base url
Website_resolve(base_url, href) ==
    IF ~(StartsWith(href, <<"h", "t", "t", "p", ":", "/", "/">>) \/ StartsWith(href, <<"h", "t", "t", "p", "s", ":", "/", "/">>))
    THEN StripRight(base_url, "/") \o <<"/">> \o StripLeft(href, "/")
    ELSE href

\* lines 54-80: the Release of one link that is a download link
Website_release(link, version, base_url, meta_info) ==
    LET text == Lower(link.text)
        parent_text == Lower(link.text \o link.tail)
        href == Website_resolve(base_url, link.href)
    IN  [version |-> version,
         url |-> href,
         architecture |-> Base_detect_architecture(href \o <<" ">> \o text),
         type |-> detect_file_type(href),
         date |-> Website_extract_date(parent_text),
         size |-> Website_extract_size(parent_text),
         installerType |-> detect_installer_type(href, text).value,
         publisher |-> IF "publisher" \in DOMAIN meta_info
                       THEN meta_info.publisher ELSE <<>>,
         description |-> IF "description" \in DOMAIN meta_info
                         THEN meta_info.description ELSE <<>>,
         homepage |-> base_url,
         filename |-> SplitLast(href, "/")]

\* a mutation of _find_downloads: a link whose url was met already gives no
\* Release
Website_find_downloads_once(soup, base_url, meta_info) ==
    LET version == Website_extract_version(GetText(soup))
        found == SelectSeq(soup.links,
                           LAMBDA l : Website_is_download_link(l.href, Lower(l.text)))
        first == {k \in 1..Len(found) :
                    \A j \in 1..(k - 1) : found[j].href # found[k].href}
        kept == SelectSeq([k \in 1..Len(found) |-> <<k, found[k]>>],
                          LAMBDA p : p[1] \in first)
    IN  [k \in 1..Len(kept) |->
            Website_release(kept[k][2], version, base_url, meta_info)]

\* WebsiteDownloader._find_downloads: one Release for each download link, in
\* the order of the page
Website_find_downloads(soup, base_url, meta_info) ==
    LET version == Website_extract_version(GetText(soup))
        found == SelectSeq(soup.links,
                           LAMBDA l : Website_is_download_link(l.href, Lower(l.text)))
    IN  [k \in 1..Len(found) |->
            Website_release(found[k], version, base_url, meta_info)]

\* get_releases returned without a return statement
ReturnsNone == [returns |-> "None"]

\* WebsiteDownloader.get_releases, from the response on
Website_get_releases(resp, url) ==
    IF Raised(resp) THEN resp
    ELSE IF resp.status = 200
         THEN [value |-> Website_find_downloads(resp.soup, url,
                                                Website_extract_meta_info(resp.soup))]
         ELSE ReturnsNone

(***************************************************************************)
(* The pages a vendor may serve.                                           *)
(***************************************************************************)
DownloadLink == [href |-> <<"/", "d", "l", "/", "a", "p", "p", "-", "x", "6", "4", ".", "e", "x", "e">>, text |-> <<"D", "o", "w", "n", "l", "o", "a", "d">>, tail |-> <<>>]

LinkPool ==
    {DownloadLink,
     [href |-> <<"h", "t", "t", "p", "s", ":", "/", "/", "c", "d", "n", "/", "a", "-", "a", "r", "m", "6", "4", ".", "m", "s", "i">>, text |-> <<"A", "R", "M", " ", "b", "u", "i", "l", "d">>,
      tail |-> <<" ", "1", "2", " ", "M", "B", " ", "0", "1", "/", "0", "2", "/", "2", "0", "2", "4">>],
     [href |-> <<"/", "a", "b", "o", "u", "t">>, text |-> <<"A", "b", "o", "u", "t", " ", "u", "s">>, tail |-> <<" ", "v", "3", ".", "0", ".", "1">>],
     [href |-> <<"/", "g", "o">>, text |-> <<"G", "e", "t", " ", "i", "t">>, tail |-> <<" ", "(", "1", ".", "5", " ", "g", "b", ")", " ">>],
     [href |-> <<"f", "t", "p", ":", "/", "/", "m", "/", "a", ".", "Z", "I", "P">>, text |-> <<"M", "i", "r", "r", "o", "r">>, tail |-> <<>>],
     [href |-> <<"/", "f", "/", "r", "e", "p", "o", "r", "t", ".">>, text |-> <<"l", "a", "t", "e", "s", "t">>, tail |-> <<>>]}

Soups ==
    {[f \in fields |->
        CASE f = "links" -> links
          [] f = "metas" -> metas
          [] f = "title" -> <<" ", "A", "p", "p", " ", "2", ".", "1", "0", " ">>] :
      fields \in {{"links", "metas"}, {"links", "metas", "title"}},
      links \in UNION {[1..n -> LinkPool] : n \in 0..MaxLinks},
      metas \in {<<>>, << [name |-> "author", content |-> <<"A", "C", "M", "E">>],
                          [name |-> "description"],
                          [name |-> "publisher", content |-> <<"O", "t", "h", "e", "r">>] >>}}

BaseUrls == {<<"h", "t", "t", "p", "s", ":", "/", "/", "s", "i", "t", "e", "/">>, <<"h", "t", "t", "p", "s", ":", "/", "/", "e", "x", "a", "m", "p", "l", "e", ".", "c", "o", "m">>}

WebsiteResponses ==
    {TransportError, NotFound, [status |-> 204], [status |-> 500]}
    \cup {[status |-> 200, soup |-> s] : s \in Soups}

WebsiteIdle ==
    w_pc = "idle" /\ w_url = <<>> /\ w_response = Null /\ w_return = NotReturned

\* a mutation of init_session: a session is made whether one is open or not
init_session_always(s, c) == Cardinality(c) + (IF s = 0 THEN 1 ELSE 2)

\* AppTracker.init_session: self.session after the call; 0 is None, a new
\* session is numbered after the ones closed
init_session(s, c) == IF s = 0 THEN Cardinality(c) + 1 ELSE s

\* AppTracker.close_session: self.session and the sessions closed after the
\* call
close_session(s, c) ==
    IF s # 0 THEN [session |-> 0, closed |-> c \cup {s}]
    ELSE [session |-> s, closed |-> c]

\* the record of a call of one of the two
SessionCall(op, direct, s, c, s2, c2) ==
    [op |-> op, direct |-> direct, before |-> s, after |-> s2,
     closed_before |-> c, closed_after |-> c2]

\* there was no run before this one
NoRun == [no_run |-> TRUE]

TrackerIdle ==
    /\ pc = "idle" /\ session = 0 /\ closed = {} /\ files = <<>> /\ idx = 0
    /\ cur = NoApp /\ apps_data = EmptyDict /\ requests = <<>>
    /\ processed = <<>> /\ handed = NoOutput /\ written = NoOutput
    /\ error = "none" /\ clock = 0
    /\ run = 1 /\ previous = NoRun /\ calls = <<>>

ClassifierIdle ==
    c_pc = "idle" /\ c_in = None /\ c_op = "none" /\ c_out = None

\* AppTracker() and the listing of apps/
TrackerInit ==
    /\ pc = "start" /\ session = 0 /\ closed = {}
    /\ files \in Listings
    /\ idx = 0 /\ cur = NoApp /\ apps_data = EmptyDict /\ requests = <<>>
    /\ processed = <<>> /\ handed = NoOutput /\ written = NoOutput
    /\ error = "none" /\ clock = 0
    /\ run = 1 /\ previous = NoRun /\ calls = <<>>

\* init_session, called at line 156
InitSession ==
    /\ pc = "start"
    /\ session' = init_session(session, closed)
    /\ calls' = Append(calls, SessionCall("init_session", FALSE, session, closed,
                                          session', closed))
    /\ pc' = "loop"
    /\ UNCHANGED <<closed, files, idx, cur, apps_data, requests, processed,
                   handed, written, error, clock>>
    /\ UNCHANGED <<run, previous>>
    /\ UNCHANGED <<classifierVars, githubVars, websiteVars>>

\* the loop takes the next file and process_app runs up to its request, or
\* to its end when it issues none
ProcessAppBegin ==
    /\ pc = "loop" /\ idx < Len(files)
    /\ LET file == files[idx + 1]
           d == ProcessAppDispatch(file.config)
       IN  IF "await" \in DOMAIN d
           THEN /\ cur' = file
                /\ requests' = Append(requests,
                                      [url |-> d.await, session |-> session,
                                       open |-> session # 0 /\ session \notin closed])
                /\ pc' = "fetch"
                /\ UNCHANGED <<apps_data, processed, clock, error>>
           ELSE IF ProcessAppEscapes(file.config, d) # "none"
           THEN /\ error' = ProcessAppEscapes(file.config, d)
                /\ pc' = "close"
                /\ UNCHANGED <<cur, requests, apps_data, processed, clock>>
           ELSE LET result == ProcessAppReturn(file.config, d, clock)
                IN  /\ apps_data' = StoreResult(apps_data, file.stem, result)
                    /\ processed' = Append(processed,
                                           [file |-> file, response |-> NoRequest,
                                            caught |-> ProcessAppRaises(file.config, d),
                                            result |-> result])
                    /\ clock' = clock + 1
                    /\ UNCHANGED <<cur, requests, pc, error>>
    /\ idx' = idx + 1
    /\ UNCHANGED <<session, closed, files, handed, written>>
    /\ UNCHANGED <<run, previous, calls>>
    /\ UNCHANGED <<classifierVars, githubVars, websiteVars>>

\* a second run is answered what the first run was answered, as far as the
\* first run went
Replayed(resp) ==
    (run = 2 /\ Len(processed) < Len(previous.processed))
        => resp = previous.processed[Len(processed) + 1].response

\* the response arrives and process_app runs to its end
ProcessAppResume ==
    /\ pc = "fetch"
    /\ \E resp \in Responses(cur.config.detect.type) :
        LET info == ProcessAppInfo(cur.config, resp)
            result == ProcessAppReturn(cur.config, info, clock)
        IN  /\ Replayed(resp)
            /\ IF ProcessAppEscapes(cur.config, info) # "none"
               THEN /\ error' = ProcessAppEscapes(cur.config, info)
                    /\ pc' = "close"
                    /\ UNCHANGED <<apps_data, processed, clock>>
               ELSE /\ apps_data' = StoreResult(apps_data, cur.stem, result)
                    /\ processed' = Append(processed,
                                           [file |-> cur, response |-> resp,
                                            caught |-> ProcessAppRaises(cur.config, info),
                                            result |-> result])
                    /\ clock' = clock + 1
                    /\ pc' = "loop"
                    /\ UNCHANGED error
    /\ cur' = NoApp
    /\ UNCHANGED <<session, closed, files, idx, requests, handed, written>>
    /\ UNCHANGED <<run, previous, calls>>
    /\ UNCHANGED <<classifierVars, githubVars, websiteVars>>

\* iterdir or glob raises: the exception leaves the loop
ListingFails ==
    /\ pc = "loop" /\ idx < Len(files)
    /\ error' = "OSError"
    /\ pc' = "close"
    /\ UNCHANGED <<session, closed, files, idx, cur, apps_data, requests,
                   processed, handed, written, clock>>
    /\ UNCHANGED <<run, previous, calls>>
    /\ UNCHANGED <<classifierVars, githubVars, websiteVars>>

\* lines 169-180: data/ is made, the aggregate is built and handed to
\* json.dump; mkdir, open or the dump may raise
WriteOutput ==
    /\ pc = "loop" /\ idx = Len(files)
    /\ \E outcome \in {"ok", "mkdir raises", "dump raises"} :
        /\ handed' = IF outcome = "mkdir raises" THEN handed
                     ELSE BuildOutput(apps_data, clock)
        /\ written' = IF outcome = "ok" THEN BuildOutput(apps_data, clock)
                      ELSE written
        /\ error' = IF outcome = "ok" THEN error ELSE "OSError"
    /\ clock' = clock + 1
    /\ pc' = "close"
    /\ UNCHANGED <<session, closed, files, idx, cur, apps_data, requests, processed>>
    /\ UNCHANGED <<run, previous, calls>>
    /\ UNCHANGED <<classifierVars, githubVars, websiteVars>>

\* close_session, called in the finally of line 182
CloseSession ==
    /\ pc = "close"
    /\ session' = close_session(session, closed).session
    /\ closed' = close_session(session, closed).closed
    /\ calls' = Append(calls, SessionCall("close_session", FALSE, session, closed,
                                          session', closed'))
    /\ pc' = "done"
    /\ UNCHANGED <<files, idx, cur, apps_data, requests, processed,
                   handed, written, error, clock>>
    /\ UNCHANGED <<run, previous>>
    /\ UNCHANGED <<classifierVars, githubVars, websiteVars>>

Next ==
    \/ InitSession
    \/ ProcessAppBegin
    \/ ProcessAppResume
    \/ ListingFails
    \/ WriteOutput
    \/ CloseSession

Init == TrackerInit /\ ClassifierIdle /\ GithubIdle /\ WebsiteIdle

Spec == Init /\ [][Next]_vars

\* the scheduler runs the one task to its end
FairSpec == Spec /\ WF_vars(Next)

(***************************************************************************)
(* The pipeline run twice over the same apps/ directory.                   *)
(***************************************************************************)
\* a run that ended without an error is followed by another, of a new
\* process: a new AppTracker, the same files, the clock gone on
Rerun ==
    /\ pc = "done" /\ run = 1 /\ error = "none"
    /\ run' = 2
    /\ previous' = [processed |-> processed, handed |-> handed, error |-> error]
    /\ pc' = "start" /\ idx' = 0 /\ cur' = NoApp /\ apps_data' = EmptyDict
    /\ processed' = <<>> /\ handed' = NoOutput /\ error' = "none"
    /\ UNCHANGED <<session, closed, files, requests, written, clock, calls>>
    /\ UNCHANGED <<classifierVars, githubVars, websiteVars>>

RerunNext ==
    \/ Next
    \/ Rerun

RerunSpec == Init /\ [][RerunNext]_vars

(***************************************************************************)
(* The owner of the AppTracker calls init_session and close_session itself *)
(* before and after update_all_apps.                                       *)
(***************************************************************************)
\* the calls made by the owner so far
DirectCalls == Cardinality({k \in 1..Len(calls) : calls[k].direct})

SessionInit ==
    /\ pc = "start" /\ session = 0 /\ closed = {}
    /\ files \in {l \in Listings : Len(l) <= MaxSessionApps}
    /\ idx = 0 /\ cur = NoApp /\ apps_data = EmptyDict /\ requests = <<>>
    /\ processed = <<>> /\ handed = NoOutput /\ written = NoOutput
    /\ error = "none" /\ clock = 0
    /\ run = 1 /\ previous = NoRun /\ calls = <<>>

\* init_session, called by the owner
CallInitSession ==
    /\ pc \in {"start", "done", "after"} /\ DirectCalls < MaxCalls
    /\ session' = init_session(session, closed)
    /\ calls' = Append(calls, SessionCall("init_session", TRUE, session, closed,
                                          session', closed))
    /\ pc' = IF pc = "start" THEN pc ELSE "after"
    /\ UNCHANGED <<closed, files, idx, cur, apps_data, requests, processed,
                   handed, written, error, clock, run, previous>>
    /\ UNCHANGED <<classifierVars, githubVars, websiteVars>>

\* close_session, called by the owner
CallCloseSession ==
    /\ pc \in {"start", "done", "after"} /\ DirectCalls < MaxCalls
    /\ session' = close_session(session, closed).session
    /\ closed' = close_session(session, closed).closed
    /\ calls' = Append(calls, SessionCall("close_session", TRUE, session, closed,
                                          session', closed'))
    /\ pc' = IF pc = "start" THEN pc ELSE "after"
    /\ UNCHANGED <<files, idx, cur, apps_data, requests, processed,
                   handed, written, error, clock, run, previous>>
    /\ UNCHANGED <<classifierVars, githubVars, websiteVars>>

SessionNext ==
    \/ Next
    \/ CallInitSession
    \/ CallCloseSession

SessionStart == SessionInit /\ ClassifierIdle /\ GithubIdle /\ WebsiteIdle

SessionSpec == SessionStart /\ [][SessionNext]_vars

(***************************************************************************)
(* The classifier's inputs.                                                *)
(***************************************************************************)
(***************************************************************************)
(* The version-cleaning helpers.                                           *)
(***************************************************************************)
\* BaseDownloader._clean_version
Base_clean_version(version0) ==
    LET version1 == StripSpace(Lower(version0))
        version2 == IF StartsWith(version1, <<"v">>)
                    THEN SubSeq(version1, 2, Len(version1)) ELSE version1
    IN  SelectSeq(version2, LAMBDA c : IsDigit(c) \/ c = ".")

\* AppUtils.clean_version
AppUtils_clean_version(version0) ==
    LET version1 == StripSpace(Lower(version0))
    IN  IF StartsWith(version1, <<"v">>)
        THEN SubSeq(version1, 2, Len(version1)) ELSE version1

\* the versions handed to the helpers
VersionTokens ==
    {<<"v">>, <<"V">>, <<"V", "e", "r", "s", "i", "o", "n", " ">>, <<"2", ".", "1", "0", ".", "1">>, <<"3", ".", "0">>, <<" ">>, <<"-", "b", "e", "t", "a">>, <<"1">>}

VersionTexts == TokenTexts(VersionTokens, MaxVersionTokens)

ArchTokens ==
    { <<"a", "p", "p", "-">>, <<".", "e", "x", "e">>,
      <<"a", "r", "m", "6", "4">>, <<"A", "R", "M", "6", "4">>,
      <<"a", "a", "r", "c", "h", "6", "4">>,
      <<"x", "6", "4">>, <<"a", "m", "d", "6", "4">>,
      <<"6", "4", "b", "i", "t">>, <<"W", "i", "n", "6", "4">>,
      <<"x", "8", "6", "_", "6", "4">>, <<"x", "8", "6">>,
      <<"w", "i", "n", "3", "2">>, <<"3", "2", "b", "i", "t">>,
      <<"i", "3", "8", "6">> }

ArchTexts == TokenTexts(ArchTokens, MaxTokens)

UrlTokens ==
    { <<"h", "t", "t", "p">>, <<"h", "t", "t", "p", "s">>, <<"f", "t", "p">>,
      <<":", "/", "/">>, <<":", "/">>, <<"H", "T", "T", "P">>,
      <<"e", "x", "a", "m", "p", "l", "e", ".", "c", "o", "m", "/",
        "f", ".", "e", "x", "e">> }

UrlTexts == TokenTexts(UrlTokens, MaxUrlTokens)

FtpUrl == <<"f", "t", "p", ":", "/", "/", "e", "x", "a", "m", "p", "l", "e",
            ".", "c", "o", "m", "/", "f", ".", "e", "x", "e">>

HttpsUrl == <<"h", "t", "t", "p", "s", ":", "/", "/", "e", "x", "a", "m", "p",
              "l", "e", ".", "c", "o", "m", "/", "f", ".", "e", "x", "e">>

\* the Releases handed to _is_valid_release: the required fields, each
\* empty, None or set
CandidateReleases ==
    [version : {<<>>, <<"1", ".", "0">>},
     url : UrlTexts \cup {None},
     architecture : {<<>>, None, <<"x", "6", "4">>},
     type : {<<>>, <<"e", "x", "e">>}]

(***************************************************************************)
(* The classifier specification: one input, one call.                      *)
(***************************************************************************)
ClassifierInit ==
    /\ c_pc = "ready"
    /\ c_in \in  {[kind |-> "text", text |-> t] : t \in ArchTexts}
            \cup {[kind |-> "release", release |-> r] : r \in CandidateReleases}
            \cup {[kind |-> "version", text |-> t] : t \in VersionTexts}
    /\ c_op = "none"
    /\ c_out = None

CallBaseDetectArchitecture ==
    /\ c_pc = "ready" /\ c_in.kind = "text"
    /\ c_op' = "BaseDownloader._detect_architecture"
    /\ c_out' = Base_detect_architecture(c_in.text)
    /\ c_pc' = "returned"
    /\ UNCHANGED c_in
    /\ UNCHANGED <<trackerVars, githubVars, websiteVars>>

CallGithubDetectArchitecture ==
    /\ c_pc = "ready" /\ c_in.kind = "text"
    /\ c_op' = "GithubDownloader._detect_architecture"
    /\ c_out' = Github_detect_architecture(c_in.text)
    /\ c_pc' = "returned"
    /\ UNCHANGED c_in
    /\ UNCHANGED <<trackerVars, githubVars, websiteVars>>

CallAppUtilsDetectArchitecture ==
    /\ c_pc = "ready" /\ c_in.kind = "text"
    /\ c_op' = "AppUtils.detect_architecture"
    /\ c_out' = AppUtils_detect_architecture(c_in.text)
    /\ c_pc' = "returned"
    /\ UNCHANGED c_in
    /\ UNCHANGED <<trackerVars, githubVars, websiteVars>>

CallIsValidRelease ==
    /\ c_pc = "ready" /\ c_in.kind = "release"
    /\ c_op' = "BaseDownloader._is_valid_release"
    /\ c_out' = Base_is_valid_release(c_in.release)
    /\ c_pc' = "returned"
    /\ UNCHANGED c_in
    /\ UNCHANGED <<trackerVars, githubVars, websiteVars>>

CallBaseCleanVersion ==
    /\ c_pc = "ready" /\ c_in.kind = "version"
    /\ c_op' = "BaseDownloader._clean_version"
    /\ c_out' = Base_clean_version(c_in.text)
    /\ c_pc' = "returned"
    /\ UNCHANGED c_in
    /\ UNCHANGED <<trackerVars, githubVars, websiteVars>>

CallAppUtilsCleanVersion ==
    /\ c_pc = "ready" /\ c_in.kind = "version"
    /\ c_op' = "AppUtils.clean_version"
    /\ c_out' = AppUtils_clean_version(c_in.text)
    /\ c_pc' = "returned"
    /\ UNCHANGED c_in
    /\ UNCHANGED <<trackerVars, githubVars, websiteVars>>

\* the helper is called on what it returned
CallCleanVersionAgain ==
    /\ c_pc = "returned" /\ c_in.kind = "version"
    /\ c_in' = [kind |-> "version", text |-> c_out]
    /\ c_out' = IF c_op = "BaseDownloader._clean_version"
                THEN Base_clean_version(c_out)
                ELSE AppUtils_clean_version(c_out)
    /\ c_pc' = "returned again"
    /\ UNCHANGED c_op
    /\ UNCHANGED <<trackerVars, githubVars, websiteVars>>

ClassifierNext ==
    \/ CallBaseDetectArchitecture
    \/ CallGithubDetectArchitecture
    \/ CallAppUtilsDetectArchitecture
    \/ CallIsValidRelease
    \/ CallBaseCleanVersion
    \/ CallAppUtilsCleanVersion
    \/ CallCleanVersionAgain

ClassifierStart == ClassifierInit /\ TrackerIdle /\ GithubIdle /\ WebsiteIdle

ClassifierSpec == ClassifierStart /\ [][ClassifierNext]_vars

(***************************************************************************)
(* GithubDownloader.get_releases, one await at a time.                     *)
(***************************************************************************)
\* get_releases is called: the repository is asked for
GithubInit ==
    /\ g_pc = "repo" /\ g_requests = <<"repos/o/r">> /\ g_responses = <<>>
    /\ g_repo_info = Null /\ g_release_info = Null /\ g_return = NotReturned

\* lines 17-23 and 26: the repository's answer; the latest release is asked for
GithubRepoResponse ==
    /\ g_pc = "repo"
    /\ \E resp \in GithubResponses(RepoInfos) :
        /\ g_responses' = Append(g_responses, resp)
        /\ IF Raised(resp)
           THEN /\ g_return' = resp /\ g_pc' = "raised"
                /\ UNCHANGED <<g_requests, g_repo_info>>
           ELSE IF ~GithubProceeds(resp)
           THEN /\ g_return' = [value |-> <<>>] /\ g_pc' = "returned"
                /\ UNCHANGED <<g_requests, g_repo_info>>
           ELSE /\ g_repo_info' = resp.json
                /\ g_requests' = Append(g_requests, "repos/o/r/releases/latest")
                /\ g_pc' = "release"
                /\ UNCHANGED g_return
    /\ UNCHANGED g_release_info
    /\ UNCHANGED <<classifierVars, trackerVars, websiteVars>>

\* lines 26-32 and 35: the release's answer; the README is asked for
GithubReleaseResponse ==
    /\ g_pc = "release"
    /\ \E resp \in GithubResponses(ReleaseInfos) :
        /\ g_responses' = Append(g_responses, resp)
        /\ IF Raised(resp)
           THEN /\ g_return' = resp /\ g_pc' = "raised"
                /\ UNCHANGED <<g_requests, g_release_info>>
           ELSE IF ~GithubProceeds(resp)
           THEN /\ g_return' = [value |-> <<>>] /\ g_pc' = "returned"
                /\ UNCHANGED <<g_requests, g_release_info>>
           ELSE /\ g_release_info' = resp.json
                /\ g_requests' = Append(g_requests, "repos/o/r/readme")
                /\ g_pc' = "readme"
                /\ UNCHANGED g_return
    /\ UNCHANGED g_repo_info
    /\ UNCHANGED <<classifierVars, trackerVars, websiteVars>>

\* lines 35-72: the README's answer; the releases are made and returned
GithubReadmeResponse ==
    /\ g_pc = "readme"
    /\ \E resp \in GithubResponses(ReadmeInfos) :
        LET readme_content == GithubReadmeContent(resp)
            releases == GithubBuildReleases(g_repo_info, g_release_info,
                                            readme_content.value)
        IN  /\ g_responses' = Append(g_responses, resp)
            /\ IF Raised(readme_content)
               THEN g_return' = readme_content /\ g_pc' = "raised"
               ELSE IF Raised(releases)
               THEN g_return' = releases /\ g_pc' = "raised"
               ELSE g_return' = releases /\ g_pc' = "returned"
    /\ UNCHANGED <<g_requests, g_repo_info, g_release_info>>
    /\ UNCHANGED <<classifierVars, trackerVars, websiteVars>>

GithubNext ==
    \/ GithubRepoResponse
    \/ GithubReleaseResponse
    \/ GithubReadmeResponse

GithubStart == GithubInit /\ ClassifierIdle /\ TrackerIdle /\ WebsiteIdle

GithubSpec == GithubStart /\ [][GithubNext]_vars

(***************************************************************************)
(* WebsiteDownloader.get_releases.                                         *)
(***************************************************************************)
\* get_releases is called: the page is asked for
WebsiteInit ==
    /\ w_pc = "page" /\ w_url \in BaseUrls
    /\ w_response = Null /\ w_return = NotReturned

\* the page's answer: lines 19-28
WebsiteResponse ==
    /\ w_pc = "page"
    /\ \E resp \in WebsiteResponses :
        /\ w_response' = resp
        /\ w_return' = Website_get_releases(resp, w_url)
        /\ w_pc' = IF Raised(resp) THEN "raised" ELSE "returned"
    /\ UNCHANGED w_url
    /\ UNCHANGED <<classifierVars, trackerVars, githubVars>>

WebsiteNext == WebsiteResponse

WebsiteStart == WebsiteInit /\ ClassifierIdle /\ TrackerIdle /\ GithubIdle

WebsiteSpec == WebsiteStart /\ [][WebsiteNext]_vars

(***************************************************************************)
(* The claims about the classifier.                                        *)
(***************************************************************************)
\* s = pat followed by something
HasPrefix(s, pat) == \E n \in 0..Len(s) : s = pat \o SubSeq(s, Len(s) - n + 1, Len(s))

IsSet(x) == x # None /\ Len(x) > 0

\* C6: _is_valid_release returns true exactly when version, url, architecture
\* and type are all non-empty and url starts with http:// or https://; the
\* url ftp://example.com/f.exe is rejected, https://example.com/f.exe with
\* every required field is accepted.
C6_ValidExactlyWhenFieldsAndScheme ==
    (c_pc = "returned" /\ c_op = "BaseDownloader._is_valid_release") =>
        LET r == c_in.release
            fields == IsSet(r.version) /\ IsSet(r.url)
                      /\ IsSet(r.architecture) /\ IsSet(r.type)
        IN  /\ c_out \in BOOLEAN
            /\ c_out <=> /\ fields
                         /\ \/ HasPrefix(r.url, <<"h", "t", "t", "p", ":", "/", "/">>)
                            \/ HasPrefix(r.url, <<"h", "t", "t", "p", "s", ":", "/", "/">>)
            /\ r.url = FtpUrl => c_out = FALSE
            /\ (r.url = HttpsUrl /\ fields) => c_out = TRUE

\* C6's case: a Release with every required field and an ftp url was judged,
\* and rejected
C6_Witness ==
    /\ c_pc = "returned" /\ c_op = "BaseDownloader._is_valid_release"
    /\ c_in.release.url = FtpUrl
    /\ IsSet(c_in.release.version) /\ IsSet(c_in.release.architecture)
    /\ IsSet(c_in.release.type)
    /\ c_out = FALSE

\* detectArchitecture as section 4.1 states it
ArchitectureByPriority(text0) ==
    LET text == Lower(text0)
        has(pat) == Contains(text, pat)
    IN  IF has(<<"a", "r", "m", "6", "4">>) \/ has(<<"a", "a", "r", "c", "h", "6", "4">>)
        THEN <<"a", "r", "m", "6", "4">>
        ELSE IF \/ has(<<"x", "6", "4">>) \/ has(<<"a", "m", "d", "6", "4">>)
                \/ has(<<"6", "4", "b", "i", "t">>) \/ has(<<"w", "i", "n", "6", "4">>)
                \/ has(<<"x", "8", "6", "_", "6", "4">>)
        THEN <<"x", "6", "4">>
        ELSE <<"x", "8", "6">>

\* C7: architecture detection, as every strategy uses it (the GitHub
\* strategy's own on asset filenames included), returns arm64 for a text with
\* arm64 or aarch64, otherwise x64 for one with x64, amd64, 64bit, win64 or
\* x86_64, otherwise x86; always one of the three.
C7_ArchitectureByPriority ==
    (c_pc = "returned" /\ c_op \in {"BaseDownloader._detect_architecture",
                                    "GithubDownloader._detect_architecture",
                                    "AppUtils.detect_architecture"}) =>
        /\ c_out \in {<<"x", "8", "6">>, <<"x", "6", "4">>, <<"a", "r", "m", "6", "4">>}
        /\ c_out = ArchitectureByPriority(c_in.text)

(***************************************************************************)
(* The claims about the orchestrator.                                      *)
(***************************************************************************)
\* no two files of the listing have the same stem
DistinctStems ==
    \A i, j \in 1..Len(files) : (i # j) => files[i].stem # files[j].stem

\* the run handed an aggregate to json.dump
Handed == handed # NoOutput

\* C1: in a run over three applications in which exactly one strategy call
\* fails with a transport error, the aggregate handed to persistence has
\* apps_count = 3 and holds the failed application with no variants and the
\* other two with all of theirs.
C1_FailedAppCountedWithNoVariants ==
    (/\ Handed /\ Len(files) = 3 /\ Len(processed) = 3 /\ DistinctStems
     /\ Cardinality({i \in 1..3 : processed[i].response = TransportError}) = 1
     /\ \A i \in 1..3 : processed[i].response # TransportError
                           => processed[i].caught = "none")
    => /\ handed.apps_count = 3
       /\ \A i \in 1..3 :
            /\ processed[i].file.stem \in DOMAIN handed.apps
            /\ IF processed[i].response = TransportError
               THEN handed.apps[processed[i].file.stem].variants = <<>>
               ELSE handed.apps[processed[i].file.stem].variants
                        = processed[i].result.variants

\* the app resolved no release and raised nothing: the release API answered
\* with a status that is not 200, or no strategy matches its detect.type
ZeroWithoutRaising(p) ==
    /\ p.caught = "none"
    /\ \/ p.response = NotFound
       \/ /\ p.response = NoRequest
          /\ p.file.config.detect.type \notin {"scrape", "api", "github"}

\* C2: an application that resolves to zero releases without raising is
\* recorded in the aggregate with its name and an empty variants list, and
\* the loop goes on to the remaining applications.
C2_ZeroReleasesStillRecorded ==
    \A i \in 1..Len(processed) :
        ZeroWithoutRaising(processed[i]) =>
            LET p == processed[i]
            IN  /\ p.result # NoneResult
                /\ p.result.name = p.file.config.name
                /\ p.result.variants = <<>>
                /\ (i = Len(processed)) =>
                      /\ p.file.stem \in DOMAIN apps_data
                      /\ apps_data[p.file.stem] = p.result
                      /\ error \in {"none", "OSError"}
                      /\ (pc = "loop" /\ idx < Len(files)) => ENABLED ProcessAppBegin
                /\ (Handed /\ DistinctStems) =>
                      /\ p.file.stem \in DOMAIN handed.apps
                      /\ handed.apps[p.file.stem] = p.result

\* C2's case: a github application whose release read was answered 404 and
\* an application of a type no strategy matches were processed, and the
\* aggregate was handed over
C2_Witness ==
    /\ Handed /\ DistinctStems
    /\ \E i, j \in 1..Len(processed) :
        /\ i < j
        /\ ZeroWithoutRaising(processed[i]) /\ processed[i].response = NotFound
        /\ ZeroWithoutRaising(processed[j]) /\ processed[j].response = NoRequest

\* C3: whatever the outcomes of the applications (success, a status that is
\* not 200, a parse error, a configuration error, a raised exception), the run
\* processes every application and then builds the aggregate and hands it to
\* the output writer, unless the listing of apps/ or the making of data/
\* itself fails; no failure of an application stops the loop or leaves
\* update_all_apps.
C3_EveryAppProcessedThenHanded ==
    <>(\/ error = "OSError"
       \/ Handed /\ Len(processed) = Len(files) /\ error = "none")

\* C3's case: a run in which a transport error, a yaml error and a missing
\* key were each met handed its aggregate over
C3_Witness ==
    /\ pc = "done" /\ Handed /\ Len(processed) = Len(files)
    /\ \E i, j, k \in 1..Len(processed) :
        /\ processed[i].response = TransportError
        /\ processed[j].caught = "YAMLError"
        /\ processed[k].caught = "KeyError" /\ processed[k].response = NoRequest

Latest == <<"l", "a", "t", "e", "s", "t">>

\* C4: an application of detect.type "direct" with a downloads list of n
\* entries gets exactly n releases, in the list's order, the i-th with the
\* i-th entry's url, architecture and type and version "latest", and no
\* request is made for it.
C4_DirectListOneToOne ==
    \A i \in 1..Len(processed) :
        LET p == processed[i]
        IN  (/\ p.file.config # YamlError
             /\ {"name", "detect"} \subseteq DOMAIN p.file.config
             /\ p.file.config.detect.type = "direct")
            => LET downloads == p.file.config.detect.downloads
               IN  /\ p.response = NoRequest
                   /\ p.result # NoneResult
                   /\ Len(p.result.variants) = Len(downloads)
                   /\ \A k \in 1..Len(downloads) :
                        p.result.variants[k] =
                            [version |-> Latest,
                             architecture |-> downloads[k].arch,
                             type |-> downloads[k].type,
                             url |-> downloads[k].url]


(***************************************************************************)
(* The claims about the GitHub strategy.                                   *)
(***************************************************************************)
\* C5: no invalid Release (an empty version, url, architecture or type, or
\* a url that starts with neither http:// nor https://) is ever in the
\* sequence a strategy returns: every Release get_releases returns passes
\* _is_valid_release.
C5_NoInvalidReleaseReturned ==
    (g_pc = "returned") =>
        \A k \in 1..Len(g_return.value) : Base_is_valid_release(g_return.value[k])

\* the reads of the strategy, in their order
GithubReads == <<"repos/o/r", "repos/o/r/releases/latest", "repos/o/r/readme">>

\* the read was answered with a status that is not a success
NotSuccessful(resp) == ~Raised(resp) /\ resp.status \notin 200..299

\* C10: the reads of the GitHub strategy are issued in the order repository,
\* latest release, README, each only when the one before it has been
\* answered; a repository or release read that is answered with a status
\* that is not a success ends the strategy with an empty sequence and no
\* further read.
C10_ReadsInOrderAndSoftFailure ==
    /\ Len(g_requests) <= Len(GithubReads)
    /\ g_requests = SubSeq(GithubReads, 1, Len(g_requests))
    /\ Len(g_responses) \in {Len(g_requests) - 1, Len(g_requests)}
    /\ \A k \in 1..2 :
        (Len(g_responses) >= k /\ NotSuccessful(g_responses[k])) =>
            /\ g_pc = "returned"
            /\ g_return = [value |-> <<>>]
            /\ Len(g_requests) = k

\* C10's case: the repository was read, and the release read was answered 404
C10_Witness ==
    /\ g_pc = "returned"
    /\ Len(g_responses) = 2
    /\ g_responses[1].status = 200
    /\ g_responses[2] = NotFound
    /\ g_requests = SubSeq(GithubReads, 1, 2)

(***************************************************************************)
(* The claims about the website strategy.                                  *)
(***************************************************************************)
\* the page was fetched and get_releases returned
Fetched == w_pc = "returned" /\ w_response.status = 200

\* C8: on a fetched page whose only link is
\* <a href="/dl/app-x64.exe">Download</a> the website strategy returns
\* exactly one Release, of architecture x64, of type exe, with the url of the
\* base joined with /dl/app-x64.exe; on a fetched page without a download
\* link it returns an empty sequence.
C8_OneLinkOneExeRelease ==
    Fetched =>
        /\ (w_response.soup.links = <<DownloadLink>>) =>
              /\ "value" \in DOMAIN w_return
              /\ Len(w_return.value) = 1
              /\ w_return.value[1].architecture = <<"x", "6", "4">>
              /\ w_return.value[1].type = <<"e", "x", "e">>
              /\ w_return.value[1].url
                    = StripRight(w_url, "/") \o <<"/", "d", "l", "/", "a", "p", "p", "-", "x", "6", "4", ".", "e", "x", "e">>
        /\ (\A k \in 1..Len(w_response.soup.links) :
                ~Website_is_download_link(w_response.soup.links[k].href,
                                          Lower(w_response.soup.links[k].text)))
              => w_return = [value |-> <<>>]

\* C9: when the page is answered with a status that is not a success,
\* get_releases returns an empty sequence of releases.
C9_NonSuccessReturnsEmptySequence ==
    (w_pc = "returned" /\ NotSuccessful(w_response)) =>
        w_return = [value |-> <<>>]

(***************************************************************************)
(* The claims about the GitHub strategy's releases.                        *)
(***************************************************************************)
\* the README step failed: a transport error, a status that is not 200, an
\* answer without content, or content that does not decode
ReadmeFailed(resp) ==
    \/ Raised(resp)
    \/ resp.status # 200
    \/ "content" \notin DOMAIN resp.json
    \/ ~resp.json.content.base64
    \/ ~resp.json.content.utf8

\* nothing of the repository or of the assets makes the making of a Release
\* raise: the homepage is given, the license is not null, no label is null
MetadataComplete ==
    /\ "homepage" \in DOMAIN g_repo_info
    /\ ("license" \in DOMAIN g_repo_info) => g_repo_info.license # Null
    /\ \A k \in 1..Len(g_release_info.assets) :
          ("label" \in DOMAIN g_release_info.assets[k])
              => g_release_info.assets[k].label # None

\* the README was answered, the two reads before it having succeeded
ReadmeAnswered == Len(g_responses) = 3

\* C11: once the repository and the latest release are read, no failure of
\* the README step aborts the strategy: it returns one Release for each
\* asset, with the repository's description or the empty fallback.
C11_ReadmeFailureNeverAborts ==
    (ReadmeAnswered /\ ReadmeFailed(g_responses[3]) /\ MetadataComplete) =>
        /\ g_pc = "returned"
        /\ Len(g_return.value) = Len(g_release_info.assets)
        /\ \A k \in 1..Len(g_return.value) :
              g_return.value[k].description
                  = IF Truthy(g_repo_info.description)
                    THEN g_repo_info.description ELSE <<>>

\* the README step did not raise: the status is not 200, or the content
\* decodes
ReadmeHarmless(resp) ==
    ~Raised(resp) /\ (resp.status # 200 \/ ~ReadmeFailed(resp))

\* the repository's metadata has no license, or no homepage
NoLicense == "license" \notin DOMAIN g_repo_info \/ g_repo_info.license = Null

NoHomepage == "homepage" \notin DOMAIN g_repo_info \/ g_repo_info.homepage = None

\* no label of an asset is null
LabelsGiven ==
    \A k \in 1..Len(g_release_info.assets) :
        ("label" \in DOMAIN g_release_info.assets[k])
            => g_release_info.assets[k].label # None

\* C12: for a repository without a license or without a homepage whose
\* latest release has an asset, get_releases does not raise: the releases
\* have the license 'Unknown' and the repository's page as their homepage.
C12_MissingLicenseOrHomepageNeverRaises ==
    (/\ ReadmeAnswered /\ ReadmeHarmless(g_responses[3]) /\ LabelsGiven
     /\ Len(g_release_info.assets) >= 1
     /\ NoLicense \/ NoHomepage)
    => /\ g_pc = "returned"
       /\ \A k \in 1..Len(g_return.value) :
            /\ NoLicense => g_return.value[k].license = <<"U", "n", "k", "n", "o", "w", "n">>
            /\ NoHomepage => g_return.value[k].homepage = g_repo_info.html_url

\* the tag without one leading v
WithoutLeadingV(tag) ==
    IF Len(tag) >= 1 /\ tag[1] = "v" THEN SubSeq(tag, 2, Len(tag)) ELSE tag

\* C13: the version of every Release the GitHub strategy returns is the
\* release's tag with one leading 'v' removed when it starts with 'v', and
\* the tag itself otherwise.
C13_VersionIsTagWithoutOneLeadingV ==
    (g_pc = "returned" /\ ReadmeAnswered) =>
        \A k \in 1..Len(g_return.value) :
            g_return.value[k].version = WithoutLeadingV(g_release_info.tag_name)

\* the repository's metadata gives a homepage key and no null license
LicenseAndHomepageGiven ==
    /\ "homepage" \in DOMAIN g_repo_info
    /\ ("license" \in DOMAIN g_repo_info) => g_repo_info.license # Null

\* C18: when the repository and the latest release are read, the GitHub
\* strategy returns one Release for each asset of the release, in the
\* assets' order, all of one version and of the release's published_at, each
\* with its asset's url, name and size; a release without assets gives an
\* empty sequence.  (The README step and the license and homepage are taken
\* not to fail here.)
C18_OneReleasePerAsset ==
    (ReadmeAnswered /\ ReadmeHarmless(g_responses[3]) /\ LicenseAndHomepageGiven) =>
        LET assets == g_release_info.assets
        IN  /\ g_pc = "returned"
            /\ Len(g_return.value) = Len(assets)
            /\ \A k \in 1..Len(assets) :
                  /\ g_return.value[k].version = g_return.value[1].version
                  /\ g_return.value[k].date = g_release_info.published_at
                  /\ g_return.value[k].url = assets[k].browser_download_url
                  /\ g_return.value[k].filename = assets[k].name
                  /\ g_return.value[k].size = assets[k].size

(***************************************************************************)
(* The claims about the version-cleaning helpers.                          *)
(***************************************************************************)
\* a version-cleaning helper has returned
CleanVersionReturned ==
    c_in.kind = "version" /\ c_pc \in {"returned", "returned again"}

\* C14: for every string both version-cleaning helpers return a string of
\* digits and '.' only, "2.10.1" for "v2.10.1" and "3.0" for "Version 3.0",
\* and called on their result they return it unchanged.
C14_CleanVersionDigitsAndIdempotent ==
    CleanVersionReturned =>
        /\ \A i \in 1..Len(c_out) : IsDigit(c_out[i]) \/ c_out[i] = "."
        /\ (c_pc = "returned" /\ c_in.text = <<"v", "2", ".", "1", "0", ".", "1">>) => c_out = <<"2", ".", "1", "0", ".", "1">>
        /\ (c_pc = "returned" /\ c_in.text = <<"V", "e", "r", "s", "i", "o", "n", " ", "3", ".", "0">>) => c_out = <<"3", ".", "0">>
        /\ (c_pc = "returned again") => c_out = c_in.text

(***************************************************************************)
(* The claims about two runs of the pipeline.                              *)
(***************************************************************************)
\* two results of process_app that differ in their timestamp at most
SameButTime(a, b) ==
    IF a = NoneResult \/ b = NoneResult THEN a = b
    ELSE a.name = b.name /\ a.variants = b.variants

\* the second run handed an aggregate over, as the first did
BothHanded == run = 2 /\ Handed /\ previous.handed # NoOutput

IsCandidate(link) ==
    \/ \E ext \in {<<"e", "x", "e">>, <<"m", "s", "i">>, <<"m", "s", "i", "x">>, <<"z", "i", "p">>, <<"a", "p", "p", "x">>, <<"p", "k", "g">>, <<"a", "p", "p", "x", "b", "u", "n", "d", "l", "e">>} :
          Contains(Lower(link.href), ext)
    \/ \E kw \in {<<"d", "o", "w", "n", "l", "o", "a", "d">>, <<"s", "e", "t", "u", "p">>, <<"i", "n", "s", "t", "a", "l", "l">>, <<"g", "e", "t">>, <<"l", "a", "t", "e", "s", "t">>} :
          Contains(Lower(link.text), kw)

\* the candidates of the fetched page, in the order of the page
Candidates == SelectSeq(w_response.soup.links, IsCandidate)

\* C16: for every fetched page the website strategy returns one Release for
\* each link that is a download candidate, in the order of the page, none
\* for the other links, and two for two candidates of the same url.
C16_OneReleasePerCandidateInOrder ==
    Fetched =>
        /\ "value" \in DOMAIN w_return
        /\ Len(w_return.value) = Len(Candidates)
        /\ \A k \in 1..Len(Candidates) :
              /\ w_return.value[k].url = Website_resolve(w_url, Candidates[k].href)
              /\ w_return.value[k].filename = SplitLast(w_return.value[k].url, "/")

\* C16's case: a page of the same candidate twice, which gave two Releases
\* of one url
C16_Witness ==
    /\ Fetched
    /\ w_response.soup.links = <<DownloadLink, DownloadLink>>
    /\ Len(w_return.value) = 2
    /\ w_return.value[1].url = w_return.value[2].url

\* the text of a link's parent, as the page has it
ParentText(link) == link.text \o link.tail

\* C17: the Release of a candidate whose parent's text holds "<n> KB",
\* "<n> MB" or "<n> GB" has the size n*1024, n*1024^2 or n*1024^3, and a
\* Release is without a size only when the parent's text holds no such
\* expression; the link followed by " 12 MB" gives 12*1024^2.
C17_SizeFromParentText ==
    Fetched =>
        \A k \in 1..Len(Candidates) :
            /\ k <= Len(w_return.value)
            /\ w_return.value[k].size = Website_extract_size(ParentText(Candidates[k]))
            /\ (Candidates[k].tail = <<" ", "1", "2", " ", "M", "B", " ", "0", "1", "/", "0", "2", "/", "2", "0", "2", "4">>)
                  => w_return.value[k].size = 12 * KB * KB

(***************************************************************************)
(* The claims about the aggregate and the session.                         *)
(***************************************************************************)
\* the applications processed so far that produced a result
Produced == {i \in 1..Len(processed) : processed[i].result # NoneResult}

\* C19: during a run every application that produced a result has its own
\* entry in the aggregate map, no entry is overwritten or removed by a later
\* application, and the apps_count handed over is the number of entries and
\* the number of applications that produced a result.
C19_AggregateWriteOncePerKey ==
    /\ Cardinality(DOMAIN apps_data) = Cardinality(Produced)
    /\ \A i \in Produced :
          /\ processed[i].file.stem \in DOMAIN apps_data
          /\ apps_data[processed[i].file.stem] = processed[i].result
    /\ Handed =>
          /\ handed.apps_count = Cardinality(DOMAIN handed.apps)
          /\ handed.apps_count = Cardinality(Produced)

\* C20: in update_all_apps the session is opened before the first
\* application is processed, is open and the same one at every request of
\* the run, and is closed and reset to None when the run is left, an error
\* having escaped or not; init_session leaves an open session in place and
\* close_session does nothing to a closed one.
C20_SessionOpenDuringRunClosedAfter ==
    /\ (pc \in {"loop", "fetch"}) => (session # 0 /\ session \notin closed)
    /\ \A k \in 1..Len(requests) :
          /\ requests[k].open
          /\ requests[k].session # 0
          /\ requests[k].session = requests[1].session
    /\ (error # "none") => pc \in {"close", "done", "after"}
    /\ (pc = "done") =>
          /\ session = 0
          /\ \A k \in 1..Len(requests) : requests[k].session \in closed
    /\ \A k \in 1..Len(calls) :
          LET c == calls[k]
          IN  IF c.op = "init_session"
              THEN /\ c.closed_after = c.closed_before
                   /\ IF c.before # 0 THEN c.after = c.before
                      ELSE c.after # 0 /\ c.after \notin c.closed_before
              ELSE /\ c.after = 0
                   /\ c.closed_after = IF c.before = 0 THEN c.closed_before
                                       ELSE c.closed_before \cup {c.before}

\* C20's case: the owner called close_session on a closed session and then
\* opened one; the run kept it, sent a request in it, was left by an error
\* and closed it
C20_Witness ==
    /\ pc = "done" /\ error # "none" /\ session = 0
    /\ Len(requests) >= 1
    /\ Len(calls) = 4
    /\ calls[1].op = "close_session" /\ calls[1].direct /\ calls[1].before = 0
    /\ calls[2].op = "init_session" /\ calls[2].direct
    /\ calls[3].op = "init_session" /\ ~calls[3].direct /\ calls[3].before # 0
    /\ calls[4].op = "close_session" /\ ~calls[4].direct
    /\ requests[1].session = calls[2].after

====
